---- MODULE Spec2Model ----
(***************************************************************************)
(* A model of exo_app.py (the exoplanet dashboard): the light-curve        *)
(* pipeline process_selected_data, the search handler of the search tab,   *)
(* and the two cached catalog queries fetch_catalog_targets and            *)
(* fetch_untested_targets.  External services (archive search, segment     *)
(* download, CSV fetch, star catalog query, the signal-processing library) *)
(* are nondeterministic: each call returns one of its possible results or  *)
(* raises.                                                                 *)
(***************************************************************************)
EXTENDS Integers, Sequences, FiniteSets, TLC

VARIABLES
    \* ---- process_selected_data ----
    pc,                     \* position in process_selected_data
    selected_items,         \* the argument: the selected segment references
    i,                      \* number of loop iterations completed (line 32)
    processed_light_curves, \* line 31
    status_placeholder,     \* content of st.empty() of line 25
    progress_placeholder,   \* content of st.empty() of line 26
    page,                   \* elements written to the page by the current run
    stages,                 \* the stages begun so far, in order
    planet_period,          \* lines 57-58 (NoPeriod before they run)
    \* ---- search tab ----
    star_id_input,          \* line 180
    selected_missions,      \* line 166
    selected_authors,       \* line 168
    search_result,          \* st.session_state.search_result
    archive_calls,          \* the calls made to lk.search_lightcurve by the last press
    uncaught,               \* an exception left the script uncaught
    \* ---- catalog tabs ----
    args,                   \* the arguments the cached function is called with
    cache,                  \* the st.cache_data entry of these arguments
    last_call               \* what the last call of the cached function did

pipeVars   == <<pc, selected_items, i, processed_light_curves, status_placeholder,
                progress_placeholder, planet_period, stages>>
searchVars == <<star_id_input, selected_missions, selected_authors, search_result,
                archive_calls, uncaught>>
catVars    == <<args, cache, last_call>>
vars       == <<pipeVars, page, searchVars, catVars>>

(***************************************************************************)
(* Bounds of the model.                                                    *)
(***************************************************************************)
MaxFiles   == 2     \* selected data products per pipeline run
MaxSamples == 2     \* samples per downloaded light curve
MaxParts   == 2     \* pieces the typed search text is made of
MaxHits    == 2     \* entries of an archive search result
MaxRows    == 3     \* rows of a remote table
MaxN       == 2     \* num_targets / num_to_sample

(***************************************************************************)
(* Generic helpers on sequences.                                           *)
(***************************************************************************)
SeqsUpTo(S, n) == UNION {[1..k -> S] : k \in 0..n}

(***************************************************************************)
(* Page elements: every st.* call that writes to the page appends one.     *)
(***************************************************************************)
Elem(kind, text, n) == [kind |-> kind, text |-> text, n |-> n]

Empty == [kind |-> "empty", text |-> "", n |-> 0]

(***************************************************************************)
(* process_selected_data (lines 22-70).                                    *)
(* A segment reference is what its download() does: it raises, returns     *)
(* None, or returns a light curve whose flux samples are NaN or a number.  *)
(***************************************************************************)
FluxValues == {"nan", "f"}

Downloads == [dl : {"raise"}, flux : {<<>>}]
       \cup [dl : {"none"},  flux : {<<>>}]
       \cup [dl : {"lc"},    flux : SeqsUpTo(FluxValues, MaxSamples)]

\* lc.remove_nans().flux
remove_nans(flux) == SelectSeq(flux, LAMBDA f : f # "nan")

\* line 36: lc is not None and len(lc.remove_nans().flux) > 0
IsValid_LengthOnly(d) == d.dl # "none" /\ Len(d.flux) > 0

IsValid(d) == d.dl # "none" /\ Len(remove_nans(d.flux)) > 0

\* line 37: lc.normalize(); the curve remembers the file it came from
normalize(file, d) == [file |-> file, flux |-> d.flux, normalized |-> TRUE]

total_files == Len(selected_items)

NoPeriod == [period |-> 0, max_power |-> 0]

PipeInit ==
    /\ selected_items \in SeqsUpTo(Downloads, MaxFiles)
    /\ pc = "begin"
    /\ i = 0
    /\ processed_light_curves = <<>>
    /\ status_placeholder = Empty
    /\ progress_placeholder = Empty
    /\ page = <<>>
    /\ stages = <<>>
    /\ planet_period = NoPeriod

\* lines 25-31
Begin ==
    /\ pc = "begin"
    /\ status_placeholder' = Elem("info", "Starting analysis", total_files)
    /\ progress_placeholder' = Elem("progress", "", 0)
    /\ processed_light_curves' = <<>>
    /\ i' = 0
    /\ stages' = Append(stages, "download")
    /\ pc' = "download"
    /\ UNCHANGED <<selected_items, page, planet_period>>
    /\ UNCHANGED <<searchVars, catVars>>

\* line 40
SkipNotice(file) == Elem("write", "Skipping empty or invalid data for file", file)

\* lines 33-41: one iteration of the loop whose download() returns
DownloadFile ==
    /\ pc = "download"
    /\ i < total_files
    /\ LET d == selected_items[i + 1] IN
        /\ d.dl # "raise"
        /\ IF IsValid(d)
           THEN /\ processed_light_curves' =
                      Append(processed_light_curves, normalize(i + 1, d))
                /\ page' = page
           ELSE /\ page' = Append(page, SkipNotice(i + 1))
                /\ UNCHANGED processed_light_curves
    /\ status_placeholder' = Elem("info", "Downloading and preparing file", i + 1)
    /\ progress_placeholder' = Elem("progress", "", ((i + 1) * 100) \div total_files)
    /\ i' = i + 1
    /\ UNCHANGED <<pc, selected_items, stages, planet_period>>
    /\ UNCHANGED <<searchVars, catVars>>

\* lines 42-45: nothing was retained
NoDataError == Elem("error", "Could not process any of the selected light curve data.", 0)

AbortNoData_NoReturn ==
    /\ pc = "download"
    /\ i = total_files
    /\ processed_light_curves = <<>>
    /\ page' = Append(page, NoDataError)
    /\ status_placeholder' = Empty
    /\ progress_placeholder' = Empty
    /\ pc' = "bin"
    /\ UNCHANGED <<selected_items, i, processed_light_curves, stages, planet_period>>
    /\ UNCHANGED <<searchVars, catVars>>

AbortNoData ==
    /\ pc = "download"
    /\ i = total_files
    /\ processed_light_curves = <<>>
    /\ page' = Append(page, NoDataError)
    /\ status_placeholder' = Empty
    /\ progress_placeholder' = Empty
    /\ pc' = "aborted"
    /\ UNCHANGED <<selected_items, i, processed_light_curves, stages, planet_period>>
    /\ UNCHANGED <<searchVars, catVars>>

\* lines 46-49: stitch the retained curves
Stitch ==
    /\ pc = "download"
    /\ i = total_files
    /\ processed_light_curves # <<>>
    /\ status_placeholder' = Elem("info", "Stitching data segments together", 0)
    /\ stages' = Append(stages, "stitch")
    /\ pc' = "bin"
    /\ UNCHANGED <<selected_items, i, processed_light_curves, progress_placeholder,
                   page, planet_period>>
    /\ UNCHANGED <<searchVars, catVars>>

\* lines 50-53: bin and flatten
BinFlatten ==
    /\ pc = "bin"
    /\ status_placeholder' = Elem("info", "Binning and flattening the light curve", 0)
    /\ progress_placeholder' = Empty
    /\ stages' = Append(stages, "bin")
    /\ pc' = "plot1"
    /\ UNCHANGED <<selected_items, i, processed_light_curves, page, planet_period>>
    /\ UNCHANGED <<searchVars, catVars>>

\* lines 54-55: the plot of the cleaned series
Plot(name) == Elem("pyplot", name, 0)

PlotCleaned ==
    /\ pc = "plot1"
    /\ page' = page \o <<Elem("subheader", "Cleaned & Flattened Light Curve", 0),
                         Plot("cleaned")>>
    /\ pc' = "search"
    /\ UNCHANGED <<selected_items, i, processed_light_curves, status_placeholder,
                   progress_placeholder, stages, planet_period>>
    /\ UNCHANGED <<searchVars, catVars>>

\* lines 56-59: the periodogram; the library returns the period at maximum
\* power whatever that power is
Periods == {1, 2}
Powers  == {0, 1}

Periodogram ==
    /\ pc = "search"
    /\ status_placeholder' = Elem("info", "Searching for periodic transit signals", 0)
    /\ stages' = Append(stages, "search")
    /\ \E period \in Periods, power \in Powers :
          planet_period' = [period |-> period, max_power |-> power]
    /\ pc' = "report"
    /\ UNCHANGED <<selected_items, i, processed_light_curves, progress_placeholder, page>>
    /\ UNCHANGED <<searchVars, catVars>>

\* line 60
PeriodNotice(p) == Elem("success", "Strongest signal found at a period of", p)

\* lines 60-62: the period is reported, then the periodogram is plotted
ReportPeriod_Thresholded ==
    /\ pc = "report"
    /\ page' = page
               \o (IF planet_period.max_power > 0
                   THEN <<PeriodNotice(planet_period.period)>> ELSE <<>>)
               \o <<Elem("subheader", "Finding a Repeating Signal (Periodogram)", 0),
                    Plot("periodogram")>>
    /\ pc' = "fold"
    /\ UNCHANGED <<selected_items, i, processed_light_curves, status_placeholder,
                   progress_placeholder, stages, planet_period>>
    /\ UNCHANGED <<searchVars, catVars>>

ReportPeriod ==
    /\ pc = "report"
    /\ page' = page \o <<PeriodNotice(planet_period.period),
                         Elem("subheader", "Finding a Repeating Signal (Periodogram)", 0),
                         Plot("periodogram")>>
    /\ pc' = "fold"
    /\ UNCHANGED <<selected_items, i, processed_light_curves, status_placeholder,
                   progress_placeholder, stages, planet_period>>
    /\ UNCHANGED <<searchVars, catVars>>

\* lines 63-64
Fold ==
    /\ pc = "fold"
    /\ status_placeholder' = Elem("info", "Folding the light curve", 0)
    /\ stages' = Append(stages, "fold")
    /\ pc' = "plot3"
    /\ UNCHANGED <<selected_items, i, processed_light_curves, progress_placeholder,
                   page, planet_period>>
    /\ UNCHANGED <<searchVars, catVars>>

\* lines 65-67
PlotFolded ==
    /\ pc = "plot3"
    /\ page' = page \o <<Elem("subheader", "Folded Light Curve: The Final Proof", 0),
                         Plot("folded")>>
    /\ status_placeholder' = Elem("success", "Analysis Complete!", 0)
    /\ pc' = "complete"
    /\ UNCHANGED <<selected_items, i, processed_light_curves, progress_placeholder,
                   stages, planet_period>>
    /\ UNCHANGED <<searchVars, catVars>>

(***************************************************************************)
(* An exception.  Every call into the download service or the library may  *)
(* raise; EmittedBeforeRaise is what the block at pc wrote to the page     *)
(* before the call that raises, StageBegun the stage that call belongs to. *)
(***************************************************************************)
CanRaise ==
    \/ pc = "download" /\ i < total_files /\ selected_items[i + 1].dl = "raise"  \* line 35
    \/ pc = "download" /\ i = total_files /\ processed_light_curves # <<>>        \* 47-48
    \/ pc \in {"bin", "plot1", "search", "report", "fold", "plot3"}

EmittedBeforeRaise ==
    CASE pc = "plot1"  -> <<Elem("subheader", "Cleaned & Flattened Light Curve", 0)>>
      [] pc = "report" -> <<PeriodNotice(planet_period.period),
                            Elem("subheader", "Finding a Repeating Signal (Periodogram)", 0)>>
      [] pc = "plot3"  -> <<Elem("subheader", "Folded Light Curve: The Final Proof", 0)>>
      [] OTHER         -> <<>>

StageBegun ==
    CASE pc = "download" /\ i = total_files -> <<"stitch">>
      [] pc = "bin"    -> <<"bin">>
      [] pc = "search" -> <<"search">>
      [] pc = "fold"   -> <<"fold">>
      [] OTHER         -> <<>>

\* lines 68-70
AnalysisError == Elem("error", "An error occurred during analysis", 0)

Except ==
    /\ CanRaise
    /\ page' = page \o EmittedBeforeRaise \o <<AnalysisError>>
    /\ stages' = stages \o StageBegun
    /\ status_placeholder' = Empty
    /\ progress_placeholder' = Empty
    /\ pc' = "failed"
    /\ UNCHANGED <<selected_items, i, processed_light_curves, planet_period>>
    /\ UNCHANGED <<searchVars, catVars>>

(***************************************************************************)
(* The search tab (lines 177-200).  Text is a sequence of characters.      *)
(***************************************************************************)
TIC  == <<"T", "I", "C">>
KIC  == <<"K", "I", "C">>
EPIC == <<"E", "P", "I", "C">>

DigitChars == <<"0", "1", "2", "3", "4", "5", "6", "7", "8", "9">>
Digits     == {DigitChars[k] : k \in 1..10}
Whitespace == {" "}

\* str.upper() on the characters the model types
upper_char(c) == CASE c = "t" -> "T" [] c = "i" -> "I" [] c = "c" -> "C"
                   [] c = "x" -> "X" [] OTHER -> c

upper(s) == [k \in 1..Len(s) |-> upper_char(s[k])]

\* str.replace(pat, ""): every non-overlapping occurrence, left to right
RECURSIVE remove(_, _)
remove(s, pat) ==
    IF Len(s) < Len(pat) THEN s
    ELSE IF SubSeq(s, 1, Len(pat)) = pat
         THEN remove(SubSeq(s, Len(pat) + 1, Len(s)), pat)
         ELSE <<Head(s)>> \o remove(Tail(s), pat)

\* str.strip()
RECURSIVE lstrip(_)
lstrip(s) == IF s # <<>> /\ Head(s) \in Whitespace THEN lstrip(Tail(s)) ELSE s

RECURSIVE rstrip(_)
rstrip(s) == IF s # <<>> /\ s[Len(s)] \in Whitespace
             THEN rstrip(SubSeq(s, 1, Len(s) - 1)) ELSE s

strip(s) == rstrip(lstrip(s))

\* str.isdigit(): non-empty and digits only
isdigit(s) == s # <<>> /\ \A k \in 1..Len(s) : s[k] \in Digits

\* line 186
search_term(input) == strip(remove(remove(remove(upper(input), TIC), KIC), EPIC))

\* line 187
is_id_search(input) == isdigit(search_term(input))

\* line 192: not selected_missions or not selected_authors
filters_missing_missions_only(missions, authors) == missions = {}

filters_missing(missions, authors) == missions = {} \/ authors = {}

available_missions == {"TESS", "Kepler", "K2"}               \* line 165
available_authors  == {"SPOC", "Kepler", "K2", "QLP", "TESS-SPOC"}   \* line 167

DefaultInput == TIC \o <<" ", "2", "6", "1", "1", "3", "6", "6", "7", "9">>  \* line 180

\* What the user types: up to MaxParts pieces
Pieces == {TIC, KIC, EPIC, <<"t", "i", "c">>, <<" ">>, <<"1">>, <<"x">>}

RECURSIVE Flatten(_)
Flatten(ps) == IF ps = <<>> THEN <<>> ELSE Head(ps) \o Flatten(Tail(ps))

Inputs == {Flatten(ps) : ps \in SeqsUpTo(Pieces, MaxParts)}

\* What lk.search_lightcurve does: it raises, or returns hits entries
ArchiveOutcomes == [raises : {TRUE}, hits : {0}] \cup [raises : {FALSE}, hits : 0..MaxHits]

NoResult == [is_none |-> TRUE, hits |-> 0]
Result(n) == [is_none |-> FALSE, hits |-> n]

ArchiveCall(target, filtered, missions, authors) ==
    [target |-> target, filtered |-> filtered, mission |-> missions, author |-> authors]

\* The session before the button is pressed: the widgets hold what the user
\* set them to, and nothing was searched yet (lines 159-160)
SearchInit ==
    /\ star_id_input \in Inputs \cup {DefaultInput}
    /\ selected_missions \in SUBSET available_missions
    /\ selected_authors \in SUBSET available_authors
    /\ search_result = NoResult
    /\ archive_calls = <<>>
    /\ uncaught = FALSE

\* The widgets as the script creates them (lines 166, 168, 180)
SearchIdle ==
    /\ star_id_input = DefaultInput
    /\ selected_missions = {"TESS", "Kepler", "K2"}
    /\ selected_authors = {"SPOC", "Kepler", "K2"}
    /\ search_result = NoResult
    /\ archive_calls = <<>>
    /\ uncaught = FALSE

\* lines 197-200, after a search call that returned
AfterSearch(shown, result) ==
    IF ~result.is_none /\ result.hits > 0
    THEN /\ search_result' = result
         /\ page' = shown
    ELSE /\ search_result' = NoResult
         /\ page' = Append(shown, Elem("warning", "No data found for the given criteria.", 0))

\* lines 190 and 196: the call itself, not wrapped in any try
SearchLightcurve(shown, call, outcome) ==
    /\ archive_calls' = <<call>>
    /\ IF outcome.raises
       THEN /\ uncaught' = TRUE
            /\ search_result' = NoResult
            /\ page' = shown
       ELSE /\ uncaught' = FALSE
            /\ AfterSearch(shown, Result(outcome.hits))

\* lines 181-200: the "Search for Data" button
PressSearch ==
    \E outcome \in ArchiveOutcomes :
        /\ IF star_id_input = <<>>
           THEN /\ page' = <<Elem("warning", "Please enter a star name.", 0)>>
                /\ search_result' = NoResult
                /\ archive_calls' = <<>>
                /\ uncaught' = FALSE
           ELSE IF is_id_search(star_id_input)
           THEN SearchLightcurve(<<Elem("info", "Numerical ID detected.", 0)>>,
                                 ArchiveCall(star_id_input, FALSE, {}, {}), outcome)
           ELSE IF filters_missing(selected_missions, selected_authors)
           THEN /\ archive_calls' = <<>>
                /\ uncaught' = FALSE
                /\ AfterSearch(<<Elem("sidebar.warning",
                      "Please select at least one mission and author for name searches.", 0)>>,
                      NoResult)
           ELSE SearchLightcurve(<<>>, ArchiveCall(star_id_input, TRUE, selected_missions,
                                                   selected_authors), outcome)
        /\ UNCHANGED <<star_id_input, selected_missions, selected_authors>>
        /\ UNCHANGED <<pipeVars, catVars>>

(***************************************************************************)
(* fetch_catalog_targets (lines 73-111).                                   *)
(* The remote CSV either cannot be fetched or is a table that may lack the *)
(* ID column or the disposition column; a row is [id, disp].               *)
(***************************************************************************)
Missions         == {"TESS", "Kepler", "K2", "JWST"}
DispositionTypes == {"PLANETS", "FALSE_POSITIVES"}

CatalogIDs == {12}

\* the disposition labels the remote table of a mission uses
Labels(mission_name) ==
    IF mission_name = "TESS" THEN {"CP", "PC", "FP"}
    ELSE {"CONFIRMED", "CANDIDATE", "FALSE POSITIVE"}

Remotes(mission_name) ==
    \* the CSV cannot be fetched, or lacks its disposition column
    [net_ok : {FALSE}, has_id_col : {TRUE}, has_disp_col : {TRUE}, rows : {<<>>}]
    \cup [net_ok : {TRUE}, has_id_col : {TRUE}, has_disp_col : {FALSE}, rows : {<<>>}]
    \* a table with its disposition column, with or without the ID column
    \cup [net_ok : {TRUE}, has_id_col : BOOLEAN, has_disp_col : {TRUE},
          rows : SeqsUpTo([id : CatalogIDs, disp : Labels(mission_name)], MaxRows)]

NoRemote == [net_ok |-> TRUE, has_id_col |-> TRUE, has_disp_col |-> TRUE, rows |-> <<>>]

\* lines 80-91: is the mission one the function knows
known_mission(mission_name) == mission_name \in {"TESS", "Kepler", "K2"}

\* lines 82 and 87
prefix(mission_name) == IF mission_name = "TESS" THEN TIC \o <<" ">> ELSE KIC \o <<" ">>

\* lines 83-84 and 88-89
dispositions_to_find(mission_name, disposition_type) ==
    IF mission_name = "TESS"
    THEN (IF disposition_type = "PLANETS" THEN {"CP", "PC"} ELSE {"FP"})
    ELSE (IF disposition_type = "PLANETS" THEN {"CONFIRMED", "CANDIDATE"}
          ELSE {"FALSE POSITIVE"})

\* astype(str) of an integer ID
RECURSIVE astype_str(_)
astype_str(n) == IF n < 10 THEN <<DigitChars[n + 1]>>
                 ELSE astype_str(n \div 10) \o <<DigitChars[(n % 10) + 1]>>

\* line 95
filtered_df(mission_name, disposition_type, remote) ==
    SelectSeq(remote.rows,
              LAMBDA r : r.disp \in dispositions_to_find(mission_name, disposition_type))

\* line 98: n = min(num_targets, len(filtered_df))
sample_size_all(num_targets, len) == len

sample_size(num_targets, len) == IF num_targets < len THEN num_targets ELSE len

\* the ways sample() can draw k of len rows: k distinct positions, in any order
Draws(k, len) == {f \in [1..k -> 1..len] : \A a, b \in 1..k : a # b => f[a] # f[b]}

\* line 98: the tables filtered_df.sample(n=k) can return
Samples(filtered, k) ==
    {[j \in 1..k |-> filtered[draw[j]]] : draw \in Draws(k, Len(filtered))}

\* lines 100-107: rename the columns and prefix the ID
result_row(mission_name, r) ==
    [searchable_id |-> prefix(mission_name) \o astype_str(r.id), status |-> r.disp]

\* lines 109-111: the handler of the try
on_exception_silent == [value |-> <<>>, warned |-> FALSE, raised |-> FALSE]

on_exception == [value |-> <<>>, warned |-> TRUE, raised |-> FALSE]

Returned(value) == [value |-> value, warned |-> FALSE, raised |-> FALSE]

\* lines 77-111: the body of the function, given what the remote holds and
\* the rows sample() draws
catalog_body(mission_name, disposition_type, num_targets, remote, final_sample) ==
    IF ~known_mission(mission_name) THEN Returned(<<>>)                 \* line 91
    ELSE IF ~remote.net_ok THEN on_exception                            \* line 94 raises
    ELSE IF ~remote.has_disp_col THEN on_exception                      \* line 95 raises
    ELSE IF filtered_df(mission_name, disposition_type, remote) = <<>>
         THEN Returned(<<>>)                                            \* line 96
    ELSE IF ~remote.has_id_col THEN on_exception                        \* line 107 raises
    ELSE Returned([k \in DOMAIN final_sample |-> result_row(mission_name, final_sample[k])])

\* the remote requests the body makes
catalog_requests(mission_name) == IF known_mission(mission_name) THEN <<"csv">> ELSE <<>>

\* the fetch or the parsing failed
catalog_failed(mission_name, disposition_type, remote) ==
    /\ known_mission(mission_name)
    /\ \/ ~remote.net_ok
       \/ ~remote.has_disp_col
       \/ ~remote.has_id_col /\ filtered_df(mission_name, disposition_type, remote) # <<>>

(***************************************************************************)
(* st.cache_data(ttl="1d") (lines 73 and 114): the value a call returns,   *)
(* whatever it is, is stored under the arguments; a later call with the    *)
(* same arguments returns the stored value, and replays the messages the   *)
(* stored call wrote, without running the body.                            *)
(***************************************************************************)
NoEntry == [cached |-> FALSE, value |-> <<>>, warned |-> FALSE]

Entry(out) == [cached |-> TRUE, value |-> out.value, warned |-> out.warned]

\* a call that returns from the except branch returns normally, so its value
\* is stored like any other
store(out, failed) == Entry(out)

NoCall == [called |-> FALSE, hit |-> FALSE, requests |-> <<>>, remote |-> NoRemote,
           known |-> {}, value |-> <<>>, warned |-> FALSE, raised |-> FALSE,
           failed |-> FALSE, after_failure |-> FALSE]

CacheHit ==
    [called |-> TRUE, hit |-> TRUE, requests |-> <<>>, remote |-> NoRemote, known |-> {},
     value |-> cache.value, warned |-> cache.warned, raised |-> FALSE,
     failed |-> last_call.failed, after_failure |-> last_call.failed]

CatalogInit ==
    /\ args \in [mission_name : Missions, disposition_type : DispositionTypes,
                 num : 1..MaxN]
    /\ cache = NoEntry
    /\ last_call = NoCall

\* lines 225-227 and 240-242: the button handler calls the cached function
CallFetchCatalogTargets ==
    /\ IF cache.cached
       THEN /\ last_call' = CacheHit
            /\ UNCHANGED cache
       ELSE \E remote \in Remotes(args.mission_name) :
            \E final_sample \in
                   Samples(filtered_df(args.mission_name, args.disposition_type, remote),
                           sample_size(args.num,
                               Len(filtered_df(args.mission_name, args.disposition_type, remote)))) :
              LET out == catalog_body(args.mission_name, args.disposition_type,
                                      args.num, remote, final_sample)
                  failed == catalog_failed(args.mission_name, args.disposition_type, remote)
              IN /\ cache' = store(out, failed)
                 /\ last_call' =
                      [called |-> TRUE, hit |-> FALSE,
                       requests |-> catalog_requests(args.mission_name),
                       remote |-> remote, known |-> {}, value |-> out.value,
                       warned |-> out.warned, raised |-> out.raised,
                       failed |-> failed, after_failure |-> last_call.failed]
    /\ UNCHANGED <<args, page, pipeVars, searchVars>>

\* more than a day passes: the entry expires
ExpireCache ==
    /\ cache.cached
    /\ cache' = NoEntry
    /\ UNCHANGED <<args, last_call, page, pipeVars, searchVars>>

(***************************************************************************)
(* fetch_untested_targets (lines 114-153).                                 *)
(* Two remote requests: the CSV of known objects (its TIC ID column gives  *)
(* the known IDs) and the star catalog query (a table of rows with an ID). *)
(***************************************************************************)
TicIDs == {1, 2}

UntestedRemotes ==
    \* the CSV cannot be fetched, or lacks its TIC ID column
    [toi_ok : {FALSE}, has_tic_id_col : {TRUE}, known : {{}},
     tic_ok : {TRUE}, has_id_col : {TRUE}, rows : {<<>>}]
    \cup [toi_ok : {TRUE}, has_tic_id_col : {FALSE}, known : {{}},
          tic_ok : {TRUE}, has_id_col : {TRUE}, rows : {<<>>}]
    \* the query raises
    \cup [toi_ok : {TRUE}, has_tic_id_col : {TRUE}, known : SUBSET TicIDs,
          tic_ok : {FALSE}, has_id_col : {TRUE}, rows : {<<>>}]
    \* the query answers, with or without an ID column
    \cup [toi_ok : {TRUE}, has_tic_id_col : {TRUE}, known : SUBSET TicIDs,
          tic_ok : {TRUE}, has_id_col : BOOLEAN, rows : SeqsUpTo(TicIDs, MaxRows)]

\* lines 138-139
untested_df(remote) == SelectSeq(remote.rows, LAMBDA id : id \notin remote.known)

\* lines 143-144
untested_row(id) == [searchable_id |-> TIC \o <<" ">> \o astype_str(id)]

\* lines 120-153
untested_body(num_to_sample, remote) ==
    IF ~remote.toi_ok THEN on_exception                     \* line 124 raises
    ELSE IF ~remote.has_tic_id_col THEN on_exception        \* line 125 raises
    ELSE IF ~remote.tic_ok THEN on_exception                \* lines 132-135 raise
    ELSE IF ~remote.has_id_col THEN on_exception            \* line 138 raises
    ELSE Returned([k \in DOMAIN untested_df(remote) |-> untested_row(untested_df(remote)[k])])

\* the remote requests the body makes
untested_requests(remote) ==
    IF remote.toi_ok /\ remote.has_tic_id_col THEN <<"toi_csv", "tic_query">>
    ELSE <<"toi_csv">>

untested_failed(remote) ==
    ~(remote.toi_ok /\ remote.has_tic_id_col /\ remote.tic_ok /\ remote.has_id_col)

UntestedInit ==
    /\ args \in [mission_name : {"TIC"}, disposition_type : {"UNTESTED"}, num : 1..MaxN]
    /\ cache = NoEntry
    /\ last_call = NoCall

\* lines 255-257: the button handler calls the cached function
CallFetchUntestedTargets ==
    /\ IF cache.cached
       THEN /\ last_call' = CacheHit
            /\ UNCHANGED cache
       ELSE \E remote \in UntestedRemotes :
              LET out == untested_body(args.num, remote)
              IN /\ cache' = store(out, untested_failed(remote))
                 /\ last_call' =
                      [called |-> TRUE, hit |-> FALSE,
                       requests |-> untested_requests(remote),
                       remote |-> remote, known |-> remote.known, value |-> out.value,
                       warned |-> out.warned, raised |-> out.raised,
                       failed |-> untested_failed(remote),
                       after_failure |-> last_call.failed]
    /\ UNCHANGED <<args, page, pipeVars, searchVars>>

(***************************************************************************)
(* The specifications: one per part of the program.  The parts share no    *)
(* state, so each leaves the variables of the others as they start.        *)
(***************************************************************************)
PipeIdle ==
    /\ selected_items = <<>>
    /\ pc = "idle"
    /\ i = 0
    /\ processed_light_curves = <<>>
    /\ status_placeholder = Empty
    /\ progress_placeholder = Empty
    /\ stages = <<>>
    /\ planet_period = NoPeriod

CatalogIdle ==
    /\ args = [mission_name |-> "", disposition_type |-> "", num |-> 0]
    /\ cache = NoEntry
    /\ last_call = NoCall

PipeNext ==
    \/ Begin \/ DownloadFile \/ AbortNoData \/ Stitch \/ BinFlatten \/ PlotCleaned
    \/ Periodogram \/ ReportPeriod \/ Fold \/ PlotFolded \/ Except

SearchNext == PressSearch

CatalogNext == CallFetchCatalogTargets \/ ExpireCache

UntestedNext == CallFetchUntestedTargets \/ ExpireCache

\* process_selected_data, called with any selection
Init == PipeInit /\ SearchIdle /\ CatalogIdle

Spec == Init /\ [][PipeNext]_vars

\* the search tab
InitSearch == PipeIdle /\ page = <<>> /\ SearchInit /\ CatalogIdle

SpecSearch == InitSearch /\ [][SearchNext]_vars

\* fetch_catalog_targets, called again and again with the same arguments
InitCatalog == PipeIdle /\ page = <<>> /\ SearchIdle /\ CatalogInit

SpecCatalog == InitCatalog /\ [][CatalogNext]_vars

\* fetch_untested_targets, called again and again with the same argument
InitUntested == PipeIdle /\ page = <<>> /\ SearchIdle /\ UntestedInit

SpecUntested == InitUntested /\ [][UntestedNext]_vars

(***************************************************************************)
(* The properties.                                                        *)
(***************************************************************************)
OfKind(elems, kind) == SelectSeq(elems, LAMBDA e : e.kind = kind)

Plots == OfKind(page, "pyplot")

Errors == OfKind(page, "error")

PeriodNotices == OfKind(page, "success")

IsPrefix(s, t) == Len(s) <= Len(t) /\ SubSeq(t, 1, Len(s)) = s

\* C1: a run of process_selected_data in which a stage raised has ended with
\* exactly one error message, both placeholders cleared, and neither a plot
\* nor a period notice on the page.
C1_FailedRunShowsNoPartialOutput ==
    pc = "failed" =>
        /\ Len(Errors) = 1
        /\ status_placeholder = Empty
        /\ progress_placeholder = Empty
        /\ Plots = <<>>
        /\ PeriodNotices = <<>>

\* the download of item k returned None or a curve without a non-NaN sample
Discarded(k) ==
    \/ selected_items[k].dl = "none"
    \/ /\ selected_items[k].dl = "lc"
       /\ \A j \in 1..Len(selected_items[k].flux) : selected_items[k].flux[j] = "nan"

AllDiscarded == \A k \in 1..Len(selected_items) : Discarded(k)

\* C2: when every download returns None or a curve without a valid sample,
\* the run never enters the stitch, bin/flatten, search or fold stage, shows
\* no plot, goes on until it has ended, and ends aborted with the one error
\* "Could not process any of the selected light curve data."
C2_AllDiscardedAborts ==
    AllDiscarded =>
        /\ pc \in {"begin", "download", "aborted"}
        /\ stages \in {<<>>, <<"download">>}
        /\ Plots = <<>>
        /\ pc = "aborted" \/ ENABLED PipeNext
        /\ pc = "aborted" => Errors = <<NoDataError>> /\ page[Len(page)] = NoDataError

C2_Witness ==
    /\ pc = "aborted"
    /\ Len(selected_items) = 2
    /\ selected_items[1].dl = "none"
    /\ selected_items[2].dl = "lc" /\ selected_items[2].flux = <<"nan", "nan">>
    /\ Errors = <<NoDataError>>

\* C3: no failure of an external call (here the archive search of the
\* search tab) leaves the script uncaught.
C3_NoUncaughtFailure == ~uncaught

\* the button was pressed: it wrote a message or called the archive
Pressed == page # <<>> \/ archive_calls # <<>>

\* the input, upper-cased, with TIC, KIC and EPIC removed, trimmed, is a
\* non-empty run of digits
NumericId ==
    LET t == search_term(star_id_input)
    IN  Len(t) > 0 /\ \A k \in 1..Len(t) : t[k] \in Digits

\* C4: after the button was pressed with a non-empty input: a numeric ID was
\* searched once, without mission or author filter, whatever the selected
\* sets are; any other input, with the mission set or the author set empty,
\* gave the sidebar warning and no call of the archive search.
C4_SearchDispatch ==
    (Pressed /\ star_id_input # <<>>) =>
        IF NumericId
        THEN archive_calls = <<ArchiveCall(star_id_input, FALSE, {}, {})>>
        ELSE (selected_missions = {} \/ selected_authors = {}) =>
                /\ archive_calls = <<>>
                /\ OfKind(page, "sidebar.warning") # <<>>

C4_Witness ==
    /\ star_id_input = TIC \o <<"1">>
    /\ selected_missions = {}
    /\ selected_authors = {}
    /\ archive_calls = <<ArchiveCall(star_id_input, FALSE, {}, {})>>
    /\ ~uncaught
    /\ ~search_result.is_none

\* the Searchable ID of a TIC object
TicName(id) == TIC \o <<" ">> \o astype_str(id)

\* C5: a call of fetch_untested_targets(n) that ran its body returns no row
\* whose ID is in the known-object set it fetched, and at most n rows.
C5_UntestedOnlyAndAtMostN ==
    (last_call.called /\ ~last_call.hit) =>
        /\ \A k \in 1..Len(last_call.value) :
              \A id \in last_call.known : last_call.value[k].searchable_id # TicName(id)
        /\ Len(last_call.value) <= args.num

\* C6: fetch_catalog_targets("TESS", "PLANETS", n) returns at most n rows,
\* each with a Searchable ID that starts with "TIC " and a Status of CP or PC.
C6_TessPlanetsSample ==
    (last_call.called /\ args.mission_name = "TESS" /\ args.disposition_type = "PLANETS") =>
        /\ Len(last_call.value) <= args.num
        /\ \A k \in 1..Len(last_call.value) :
              /\ IsPrefix(<<"T", "I", "C", " ">>, last_call.value[k].searchable_id)
              /\ last_call.value[k].status \in {"CP", "PC"}

C6_Witness ==
    /\ last_call.called /\ ~last_call.hit
    /\ args.mission_name = "TESS" /\ args.disposition_type = "PLANETS"
    /\ Len(last_call.remote.rows) > args.num
    /\ \A k \in 1..Len(last_call.remote.rows) : last_call.remote.rows[k].disp = "CP"
    /\ Len(last_call.value) = args.num

\* a row of the fetched table has a disposition in the requested set
SomeRowMatches ==
    \E k \in 1..Len(last_call.remote.rows) :
        last_call.remote.rows[k].disp
            \in dispositions_to_find(args.mission_name, args.disposition_type)

\* C7: fetch_catalog_targets never raises; a call that fetched a table none
\* of whose rows has a requested disposition returns an empty table without a
\* warning; a call whose fetch fails, or whose table lacks the disposition
\* column, or lacks the ID column of a matching row, warns and returns an
\* empty table.
C7_CatalogNeverRaises ==
    last_call.called =>
        /\ ~last_call.raised
        /\ ~uncaught
        /\ (~last_call.hit /\ known_mission(args.mission_name)) =>
              /\ (/\ last_call.remote.net_ok
                  /\ last_call.remote.has_disp_col
                  /\ ~SomeRowMatches)
                    => (last_call.value = <<>> /\ ~last_call.warned)
              /\ (\/ ~last_call.remote.net_ok
                  \/ ~last_call.remote.has_disp_col
                  \/ ~last_call.remote.has_id_col /\ SomeRowMatches)
                    => (last_call.value = <<>> /\ last_call.warned)

C7_Witness ==
    /\ last_call.called /\ ~last_call.hit
    /\ args.mission_name = "Kepler"
    /\ ~last_call.remote.net_ok
    /\ last_call.value = <<>>
    /\ last_call.warned

\* C8: a call makes each remote request at most once, and a call that
\* follows a failed fetch with the same arguments makes the request again.
C8_FailedFetchIsRefetched ==
    last_call.called =>
        /\ Len(last_call.requests) <= 1
        /\ (last_call.after_failure /\ known_mission(args.mission_name))
              => last_call.requests # <<>>

StageOrder == <<"download", "stitch", "bin", "search", "fold">>

\* C9: the stages begin in the fixed order, none twice; a completed run has
\* shown exactly the plots cleaned, periodogram, folded, in this order, and
\* exactly one period notice: the period at maximum power, whatever that
\* power is, shown once the search stage has begun and before the fold stage
\* begins.
C9_StageOrderAndOutputs ==
    /\ IsPrefix(stages, StageOrder)
    /\ PeriodNotices # <<>> => Len(stages) >= 4
    /\ (Len(stages) = 5 \/ pc = "fold") =>
          PeriodNotices = <<PeriodNotice(planet_period.period)>>
    /\ pc = "complete" =>
          /\ stages = StageOrder
          /\ Plots = <<Plot("cleaned"), Plot("periodogram"), Plot("folded")>>
          /\ Len(PeriodNotices) = 1
          /\ Errors = <<>>

C9_Witness ==
    /\ pc = "complete"
    /\ planet_period.max_power = 0
    /\ Len(processed_light_curves) = 1
    /\ Len(selected_items) = 2
    /\ Plots = <<Plot("cleaned"), Plot("periodogram"), Plot("folded")>>

\* the download of item k is a curve with at least one non-NaN sample
Retained(k) ==
    /\ selected_items[k].dl = "lc"
    /\ \E j \in 1..Len(selected_items[k].flux) : selected_items[k].flux[j] # "nan"

FilesDone(P(_)) == SelectSeq([k \in 1..i |-> k], P)

\* C10: after i iterations of the download loop the retained curves are, in
\* selection order, the normalized curves of exactly the items among the
\* first i whose download is a curve with a valid sample, and the skip
\* notices are one for each other item, so that retained plus skipped is i.
C10_RetainedIffValid ==
    pc # "begin" =>
        /\ processed_light_curves =
              [n \in 1..Len(FilesDone(Retained)) |->
                  [file |-> FilesDone(Retained)[n],
                   flux |-> selected_items[FilesDone(Retained)[n]].flux,
                   normalized |-> TRUE]]
        /\ OfKind(page, "write") =
              [n \in 1..Len(FilesDone(LAMBDA k : ~Retained(k))) |->
                  SkipNotice(FilesDone(LAMBDA k : ~Retained(k))[n])]
        /\ Len(processed_light_curves) + Len(OfKind(page, "write")) = i

C10_Witness ==
    /\ pc = "download"
    /\ i = 2 /\ Len(selected_items) = 2
    /\ selected_items[1].dl = "lc" /\ selected_items[1].flux = <<"nan">>
    /\ selected_items[2].dl = "lc" /\ selected_items[2].flux = <<"nan", "f">>
    /\ Len(processed_light_curves) = 1
    /\ processed_light_curves[1].file = 2
    /\ OfKind(page, "write") = <<SkipNotice(1)>>

====
